---- MODULE Spec2Model ----
(***************************************************************************)
(* Model of safe_stats.py: the SummaryStats value type, the per-signer     *)
(* SafeSignerStats ledger and the print_safe_stats report (filter loop,    *)
(* ingestion loop, rendering).                                             *)
(*                                                                         *)
(* Representation.                                                         *)
(*  - A timestamp string is a record [day, sec]; from_iso8601 turns it     *)
(*    into epoch seconds.                                                  *)
(*  - The float x / 60 is the rational [num |-> x, den |-> 60]; rationals  *)
(*    are compared by cross-multiplication.                                *)
(*  - A Decimal is [coef, exp], i.e. coef * 10^exp.                        *)
(*  - signer_stats_dict (an insertion-ordered dict) is the sequence of its *)
(*    values in insertion order; each ledger carries its key.              *)
(*  - Loop indices are zero-based, as enumerate() gives them.              *)
(***************************************************************************)
EXTENDS Integers, Sequences, FiniteSets

VARIABLES
    owners,                                \* safe_info.owners
    from_block_number,                     \* argument of print_safe_stats
    transactions,                          \* transaction_service.get_transactions(...)
    pc,                                    \* position in print_safe_stats / SummaryStats.__init__
    t_idx,                                 \* filter loop: transactions already visited
    executed_transactions,
    num_executed_transactions,
    signer_stats_dict,
    num_externally_executed_transactions,
    tx_execution_times,
    tx_i,                                  \* ingestion loop: transactions already ingested
    conf_i,                                \* enumerate(confirmations) index
    signer_i,                              \* signer loop of the report: ledgers already printed
    measurements,                          \* argument of SummaryStats.__init__
    ret,                                   \* caller of SummaryStats.__init__
    stats,                                 \* the SummaryStats instance last constructed
    error                                  \* exception that ended the run, if any

vars == <<owners, from_block_number, transactions, pc, t_idx, executed_transactions,
          num_executed_transactions, signer_stats_dict,
          num_externally_executed_transactions, tx_execution_times, tx_i, conf_i,
          signer_i, measurements, ret, stats, error>>

----------------------------------------------------------------------------
(* Bounds of the explored inputs *)

MaxTxs == 2        \* longest transaction list
MaxConfs == 2      \* longest confirmation list
MaxDay == 2        \* timestamps lie on days 0..MaxDay
MaxLen == 3        \* longest sample handed to SummaryStats on its own

(* Program constants *)

SecondsPerDay == 86400      \* range of timedelta.seconds
MinuteSeconds == 60         \* the divisor of "/ 60"
EtherExp == 18              \* from_wei(..., unit='ether'): 1 ether = 10^18 wei

----------------------------------------------------------------------------
(* Rationals standing for Python floats *)

Rat(n, d) == [num |-> n, den |-> d]

RatLE(a, b) == a.num * b.den <= b.num * a.den

RatEq(a, b) == a.num * b.den = b.num * a.den

RECURSIVE SumNum(_)
SumNum(m) == IF m = <<>> THEN 0 ELSE Head(m).num + SumNum(Tail(m))

----------------------------------------------------------------------------
(* Timestamps *)

Date(d, s) == [day |-> d, sec |-> s]

from_iso8601(d) == d.day * SecondsPerDay + d.sec

\* (later - earlier).seconds: the seconds field of the normalised timedelta
seconds(later, earlier) ==
    (from_iso8601(later) - from_iso8601(earlier)) % SecondsPerDay

\* time_taken / 60
minutes(time_taken) == Rat(time_taken, MinuteSeconds)

----------------------------------------------------------------------------
(* Decimal, eth_utils.from_wei *)

Decimal(n) == [coef |-> n, exp |-> 0]

RECURSIVE Pow10(_)
Pow10(k) == IF k = 0 THEN 1 ELSE 10 * Pow10(k - 1)

\* coef * 10^k; a zero coefficient stays zero whatever the shift
Scale(coef, k) == IF coef = 0 THEN 0 ELSE coef * Pow10(k)

\* Decimal division keeps the quotient exact and drops trailing zeros while the
\* exponent is below the ideal exponent 0
RECURSIVE Reduce(_)
Reduce(d) ==
    IF d.exp < 0 /\ d.coef # 0 /\ d.coef % 10 = 0
    THEN Reduce([coef |-> d.coef \div 10, exp |-> d.exp + 1])
    ELSE d

\* from_wei(number, unit='ether'): 0 for 0, else Decimal(number) / Decimal(10^18)
from_wei(number) ==
    IF number = 0 THEN Decimal(0) ELSE Reduce([coef |-> number, exp |-> -EtherExp])

\* Decimal.__add__: the result's exponent is the smaller of the two
DecAdd(a, b) ==
    LET e == IF a.exp < b.exp THEN a.exp ELSE b.exp
    IN  [coef |-> Scale(a.coef, a.exp - e) + Scale(b.coef, b.exp - e), exp |-> e]

----------------------------------------------------------------------------
(* class SummaryStats *)

Range(m) == {m[i] : i \in DOMAIN m}

min(m) == CHOOSE x \in Range(m) : \A y \in Range(m) : RatLE(x, y)

max(m) == CHOOSE x \in Range(m) : \A y \in Range(m) : RatLE(y, x)

\* statistics.mean: the exact sum over the count (all measurements are x / 60)
mean(m) == Rat(SumNum(m), Head(m).den * Len(m))

RECURSIVE Insert(_, _)
Insert(x, s) ==
    IF s = <<>> THEN <<x>>
    ELSE IF RatLE(x, Head(s)) THEN <<x>> \o s
    ELSE <<Head(s)>> \o Insert(x, Tail(s))

RECURSIVE sorted(_)
sorted(m) == IF m = <<>> THEN <<>> ELSE Insert(Head(m), sorted(Tail(m)))

\* statistics.median: the middle element, or the mean of the two middle ones
median(m) ==
    LET data == sorted(m)
        n == Len(m)
    IN  IF n % 2 = 1 THEN data[n \div 2 + 1]
        ELSE Rat(data[n \div 2].num + data[n \div 2 + 1].num, 2 * data[n \div 2].den)

\* statistics.stdev is a library call; its value is kept as the call itself
stdev(m) == [fn |-> "stdev", data |-> m]

ZeroStdev == [fn |-> "zero", data |-> <<>>]

\* min() of an empty sequence raises ValueError
RaisesValueError(m) == m = <<>>

\* variant: the library stdev is called from one element on
SummaryStats_stdev_of_one(m) ==
    [min |-> min(m), max |-> max(m), mean |-> mean(m), median |-> median(m),
     stdev |-> IF Len(m) > 0 THEN stdev(m) ELSE ZeroStdev]

SummaryStats(m) ==
    [min |-> min(m), max |-> max(m), mean |-> mean(m), median |-> median(m),
     stdev |-> IF Len(m) > 1 THEN stdev(m) ELSE ZeroStdev]

NoStats ==
    [min |-> Rat(0, 1), max |-> Rat(0, 1), mean |-> Rat(0, 1), median |-> Rat(0, 1),
     stdev |-> ZeroStdev]

----------------------------------------------------------------------------
(* class SafeSignerStats *)

SafeSignerStats(address) ==
    [signer_address |-> address, num_txs_created |-> 0, num_signings |-> 0,
     signing_times |-> <<>>, num_executions |-> 0, gas_spent |-> Decimal(0)]

increment_tx_creation_count(s) ==
    [s EXCEPT !.num_txs_created = s.num_txs_created + 1]

increment_signing_count(s) == [s EXCEPT !.num_signings = s.num_signings + 1]

\* variant: the execution is not counted
increment_execution_count_lost(s) == s

increment_execution_count(s) == [s EXCEPT !.num_executions = s.num_executions + 1]

\* variant: "=" for "+="
add_gas_spent_overwrite(s, gas_spent) == [s EXCEPT !.gas_spent = from_wei(gas_spent)]

add_gas_spent(s, gas_spent) ==
    [s EXCEPT !.gas_spent = DecAdd(s.gas_spent, from_wei(gas_spent))]

\* variant: the signing time is not stored
add_signing_time_lost(s, tx_creation_date, signing_date) == s

add_signing_time(s, tx_creation_date, signing_date) ==
    [s EXCEPT !.signing_times =
        Append(s.signing_times, minutes(seconds(signing_date, tx_creation_date)))]

----------------------------------------------------------------------------
(* signer_stats_dict *)

Has(dict, address) == \E i \in DOMAIN dict : dict[i].signer_address = address

\* if address not in dict: dict[address] = SafeSignerStats(address=address)
SetDefault(dict, address) ==
    IF Has(dict, address) THEN dict ELSE Append(dict, SafeSignerStats(address))

Get(dict, address) ==
    dict[CHOOSE i \in DOMAIN dict : dict[i].signer_address = address]

Put(dict, s) ==
    [i \in DOMAIN dict |->
        IF dict[i].signer_address = s.signer_address THEN s ELSE dict[i]]

----------------------------------------------------------------------------
(* Inputs: the wallet's owners, from_block_number and the transaction list.  *)
(* Every field of a transaction record ranges over its whole small domain    *)
(* while the other fields keep the value they have in BaseTx.                *)

Addr == {"A", "B"}

OwnerSets == {{"A"}, {"A", "B"}}

FromBlocks == {0, 2}

Blocks == {1, 2}

Fees == {0, 5, 10}

Dates == {Date(d, 600) : d \in 0..MaxDay}

BaseTx ==
    [isExecuted |-> TRUE, isSuccessful |-> TRUE, blockNumber |-> 2,
     submissionDate |-> Date(1, 0), executionDate |-> Date(1, 600),
     executor |-> "A", fee |-> 5,
     confirmations |-> << [owner |-> "A", submissionDate |-> Date(1, 0)],
                          [owner |-> "B", submissionDate |-> Date(1, 600)] >>]

SeqsUpTo(S, n) == UNION {[1..k -> S] : k \in 0..n}

ConfLists == SeqsUpTo({[owner |-> a, submissionDate |-> Date(1, 600)] : a \in Addr}, MaxConfs)

TxPool ==
    {[BaseTx EXCEPT !.isExecuted = e, !.isSuccessful = s] : e \in BOOLEAN, s \in BOOLEAN}
    \cup {[BaseTx EXCEPT !.blockNumber = b] : b \in Blocks}
    \cup {[BaseTx EXCEPT !.executor = x, !.fee = f] : x \in Addr, f \in Fees}
    \cup {[BaseTx EXCEPT !.confirmations = c] : c \in ConfLists}
    \cup {[BaseTx EXCEPT !.executionDate = d] : d \in Dates}
    \cup {[BaseTx EXCEPT !.confirmations[2].submissionDate = d] : d \in Dates}

\* samples for SummaryStats taken on its own: k * 30 seconds, in minutes
Samples == SeqsUpTo({minutes(k * 30) : k \in 0..3}, MaxLen)

----------------------------------------------------------------------------
(* print_safe_stats *)

Init ==
    /\ owners \in OwnerSets
    /\ from_block_number \in FromBlocks
    /\ transactions \in SeqsUpTo(TxPool, MaxTxs)
    /\ pc = "filter"
    /\ t_idx = 0
    /\ executed_transactions = <<>>
    /\ num_executed_transactions = 0
    /\ signer_stats_dict = <<>>
    /\ num_externally_executed_transactions = 0
    /\ tx_execution_times = <<>>
    /\ tx_i = 0
    /\ conf_i = 0
    /\ signer_i = 0
    /\ measurements = <<>>
    /\ ret = "none"
    /\ stats = NoStats
    /\ error = "none"

\* if not transaction['isExecuted'] or not transaction['isSuccessful']: continue
NotExecutedOrFailed(transaction) ==
    ~transaction.isExecuted \/ ~transaction.isSuccessful

\* variant: "<=" for "<"
BeforeFromBlock_inclusive(transaction, from_block) ==
    transaction.blockNumber <= from_block

\* if transaction['blockNumber'] < from_block_number: continue
BeforeFromBlock(transaction, from_block) ==
    transaction.blockNumber < from_block

\* one iteration of "for transaction in transactions"
FilterTransaction ==
    /\ pc = "filter"
    /\ t_idx < Len(transactions)
    /\ LET transaction == transactions[t_idx + 1]
       IN  executed_transactions' =
               IF NotExecutedOrFailed(transaction) THEN executed_transactions
               ELSE IF BeforeFromBlock(transaction, from_block_number)
                    THEN executed_transactions
               ELSE Append(executed_transactions, transaction)
    /\ t_idx' = t_idx + 1
    /\ UNCHANGED <<owners, from_block_number, transactions, pc,
                   num_executed_transactions, signer_stats_dict,
                   num_externally_executed_transactions, tx_execution_times, tx_i,
                   conf_i, signer_i, measurements, ret, stats, error>>

\* the filter loop is over: count, and set up the ingestion loop
CountExecuted ==
    /\ pc = "filter"
    /\ t_idx = Len(transactions)
    /\ num_executed_transactions' = Len(executed_transactions)
    /\ signer_stats_dict' = <<>>
    /\ num_externally_executed_transactions' = 0
    /\ tx_execution_times' = <<>>
    /\ tx_i' = 0
    /\ pc' = "ingest"
    /\ UNCHANGED <<owners, from_block_number, transactions, t_idx,
                   executed_transactions, conf_i, signer_i, measurements, ret, stats,
                   error>>

\* variant: the ingestion loop walks the unfiltered list
IngestList_all == transactions

\* the list "for tx in executed_transactions" walks
IngestList == executed_transactions

\* variant: the executor is credited without the owner test
RecordExecution_any_executor(dict, owner_set, tx) ==
    LET executor == tx.executor
        with == SetDefault(dict, executor)
    IN  Put(with, add_gas_spent(increment_execution_count(Get(with, executor)), tx.fee))

\* the ledgers after the "# execution" block of one transaction
RecordExecution(dict, owner_set, tx) ==
    LET executor == tx.executor
        with == SetDefault(dict, executor)
    IN  IF executor \notin owner_set THEN dict
        ELSE Put(with, add_gas_spent(increment_execution_count(Get(with, executor)), tx.fee))

\* the head of one iteration of the ingestion loop: execution time and executor
IngestExecution ==
    /\ pc = "ingest"
    /\ tx_i < Len(IngestList)
    /\ LET tx == IngestList[tx_i + 1]
           time_taken == seconds(tx.executionDate, tx.submissionDate)
       IN  /\ tx_execution_times' = Append(tx_execution_times, minutes(time_taken))
           /\ num_externally_executed_transactions' =
                  IF tx.executor \notin owners
                  THEN num_externally_executed_transactions + 1
                  ELSE num_externally_executed_transactions
           /\ signer_stats_dict' = RecordExecution(signer_stats_dict, owners, tx)
    /\ conf_i' = 0
    /\ pc' = "confirm"
    /\ UNCHANGED <<owners, from_block_number, transactions, t_idx,
                   executed_transactions, num_executed_transactions, tx_i, signer_i,
                   measurements, ret, stats, error>>

\* variant: the last confirmation, not the first, is taken for the creator's
RecordConfirmation_creator_last(dict, tx, index) ==
    LET confirmation == tx.confirmations[index + 1]
        signer == confirmation.owner
        with == SetDefault(dict, signer)
        signer_stats == increment_signing_count(Get(with, signer))
    IN  Put(with, IF index = Len(tx.confirmations) - 1
                  THEN increment_tx_creation_count(signer_stats)
                  ELSE add_signing_time(signer_stats, tx.submissionDate,
                                        confirmation.submissionDate))

\* the ledgers after one iteration of "for index, confirmation in enumerate(...)"
RecordConfirmation(dict, tx, index) ==
    LET confirmation == tx.confirmations[index + 1]
        signer == confirmation.owner
        with == SetDefault(dict, signer)
        signer_stats == increment_signing_count(Get(with, signer))
    IN  Put(with, IF index = 0
                  THEN increment_tx_creation_count(signer_stats)
                  ELSE add_signing_time(signer_stats, tx.submissionDate,
                                        confirmation.submissionDate))

IngestConfirmation ==
    /\ pc = "confirm"
    /\ conf_i < Len(IngestList[tx_i + 1].confirmations)
    /\ signer_stats_dict' = RecordConfirmation(signer_stats_dict, IngestList[tx_i + 1], conf_i)
    /\ conf_i' = conf_i + 1
    /\ UNCHANGED <<owners, from_block_number, transactions, pc, t_idx,
                   executed_transactions, num_executed_transactions,
                   num_externally_executed_transactions, tx_execution_times, tx_i,
                   signer_i, measurements, ret, stats, error>>

\* the confirmations of the transaction are exhausted: next transaction
NextTransaction ==
    /\ pc = "confirm"
    /\ conf_i = Len(IngestList[tx_i + 1].confirmations)
    /\ tx_i' = tx_i + 1
    /\ pc' = "ingest"
    /\ UNCHANGED <<owners, from_block_number, transactions, t_idx,
                   executed_transactions, num_executed_transactions, signer_stats_dict,
                   num_externally_executed_transactions, tx_execution_times, conf_i,
                   signer_i, measurements, ret, stats, error>>

\* all_txs_summary_stats = SummaryStats(measurements=tx_execution_times)
RenderOverall ==
    /\ pc = "ingest"
    /\ tx_i = Len(IngestList)
    /\ measurements' = tx_execution_times
    /\ ret' = "overall_stats"
    /\ pc' = "SummaryStats"
    /\ UNCHANGED <<owners, from_block_number, transactions, t_idx,
                   executed_transactions, num_executed_transactions, signer_stats_dict,
                   num_externally_executed_transactions, tx_execution_times, tx_i,
                   conf_i, signer_i, stats, error>>

\* SummaryStats.__init__ on a sample min() accepts
SummaryStatsInit ==
    /\ pc = "SummaryStats"
    /\ ~RaisesValueError(measurements)
    /\ stats' = SummaryStats(measurements)
    /\ pc' = ret
    /\ UNCHANGED <<owners, from_block_number, transactions, t_idx,
                   executed_transactions, num_executed_transactions, signer_stats_dict,
                   num_externally_executed_transactions, tx_execution_times, tx_i,
                   conf_i, signer_i, measurements, ret, error>>

\* SummaryStats.__init__ on an empty sample: min() raises, nothing catches it
SummaryStatsRaise ==
    /\ pc = "SummaryStats"
    /\ RaisesValueError(measurements)
    /\ error' = "ValueError"
    /\ pc' = "error"
    /\ UNCHANGED <<owners, from_block_number, transactions, t_idx,
                   executed_transactions, num_executed_transactions, signer_stats_dict,
                   num_externally_executed_transactions, tx_execution_times, tx_i,
                   conf_i, signer_i, measurements, ret, stats>>

\* the overall statistics are printed; the signer loop starts
PrintOverall ==
    /\ pc = "overall_stats"
    /\ signer_i' = 0
    /\ pc' = "signers"
    /\ UNCHANGED <<owners, from_block_number, transactions, t_idx,
                   executed_transactions, num_executed_transactions, signer_stats_dict,
                   num_externally_executed_transactions, tx_execution_times, tx_i,
                   conf_i, measurements, ret, stats, error>>

\* x / num_executed_transactions raises ZeroDivisionError on 0
DivisionRaises(denominator) == denominator = 0

\* head of one signer's block: two percentages, then signing_summary_stats
RenderSigner ==
    /\ pc = "signers"
    /\ signer_i < Len(signer_stats_dict)
    /\ IF DivisionRaises(num_executed_transactions)
       THEN /\ error' = "ZeroDivisionError"
            /\ pc' = "error"
            /\ UNCHANGED <<measurements, ret>>
       ELSE /\ measurements' = signer_stats_dict[signer_i + 1].signing_times
            /\ ret' = "signer_stats"
            /\ pc' = "SummaryStats"
            /\ error' = error
    /\ UNCHANGED <<owners, from_block_number, transactions, t_idx,
                   executed_transactions, num_executed_transactions, signer_stats_dict,
                   num_externally_executed_transactions, tx_execution_times, tx_i,
                   conf_i, signer_i, stats>>

\* rest of one signer's block: signing statistics, third percentage, gas
PrintSigner ==
    /\ pc = "signer_stats"
    /\ IF DivisionRaises(num_executed_transactions)
       THEN /\ error' = "ZeroDivisionError"
            /\ pc' = "error"
            /\ signer_i' = signer_i
       ELSE /\ signer_i' = signer_i + 1
            /\ pc' = "signers"
            /\ error' = error
    /\ UNCHANGED <<owners, from_block_number, transactions, t_idx,
                   executed_transactions, num_executed_transactions, signer_stats_dict,
                   num_externally_executed_transactions, tx_execution_times, tx_i,
                   conf_i, measurements, ret, stats>>

\* every signer is printed: print_safe_stats returns
Finish ==
    /\ pc = "signers"
    /\ signer_i = Len(signer_stats_dict)
    /\ pc' = "done"
    /\ UNCHANGED <<owners, from_block_number, transactions, t_idx,
                   executed_transactions, num_executed_transactions, signer_stats_dict,
                   num_externally_executed_transactions, tx_execution_times, tx_i,
                   conf_i, signer_i, measurements, ret, stats, error>>

Next ==
    \/ FilterTransaction
    \/ CountExecuted
    \/ IngestExecution
    \/ IngestConfirmation
    \/ NextTransaction
    \/ RenderOverall
    \/ SummaryStatsInit
    \/ SummaryStatsRaise
    \/ PrintOverall
    \/ RenderSigner
    \/ PrintSigner
    \/ Finish

Spec == Init /\ [][Next]_vars

----------------------------------------------------------------------------
(* SummaryStats on its own: the constructor applied to any small sample *)

InitStats ==
    /\ owners = {}
    /\ from_block_number = 0
    /\ transactions = <<>>
    /\ pc = "SummaryStats"
    /\ t_idx = 0
    /\ executed_transactions = <<>>
    /\ num_executed_transactions = 0
    /\ signer_stats_dict = <<>>
    /\ num_externally_executed_transactions = 0
    /\ tx_execution_times = <<>>
    /\ tx_i = 0
    /\ conf_i = 0
    /\ signer_i = 0
    /\ measurements \in Samples
    /\ ret = "constructed"
    /\ stats = NoStats
    /\ error = "none"

NextStats == SummaryStatsInit \/ SummaryStatsRaise

SpecStats == InitStats /\ [][NextStats]_vars

----------------------------------------------------------------------------
(* Vocabulary of the properties *)

\* eligibility as the specification words it
Eligible(tx) ==
    tx.isExecuted /\ tx.isSuccessful /\ tx.blockNumber >= from_block_number

EligibleTxs == SelectSeq(transactions, Eligible)

\* the ingestion loop has run to its end
IngestionDone == pc \notin {"filter", "ingest", "confirm"}

\* control is inside the signer block of the report
InSignerBlock ==
    \/ pc \in {"signers", "signer_stats", "done"}
    \/ pc \in {"SummaryStats", "error"} /\ ret = "signer_stats"

RECURSIVE SumExecutions(_)
SumExecutions(dict) ==
    IF dict = <<>> THEN 0 ELSE Head(dict).num_executions + SumExecutions(Tail(dict))

RECURSIVE SumCreated(_)
SumCreated(dict) ==
    IF dict = <<>> THEN 0 ELSE Head(dict).num_txs_created + SumCreated(Tail(dict))

RECURSIVE SumSignings(_)
SumSignings(dict) ==
    IF dict = <<>> THEN 0 ELSE Head(dict).num_signings + SumSignings(Tail(dict))

RECURSIVE SumConfirmations(_)
SumConfirmations(txs) ==
    IF txs = <<>> THEN 0 ELSE Len(Head(txs).confirmations) + SumConfirmations(Tail(txs))

Positions(txs, P(_)) == {i \in DOMAIN txs : P(txs[i])}

\* a Decimal amount of ether as a whole number of wei
WeiOf(d) == Scale(d.coef, d.exp + EtherExp)

\* the fees of the transactions of txs executed by address, summed fee value by
\* fee value, whatever their order in txs
RECURSIVE FeeTotal(_, _, _)
FeeTotal(values, txs, address) ==
    IF values = {} THEN 0
    ELSE LET f == CHOOSE v \in values : TRUE
             n == Cardinality({i \in DOMAIN txs :
                                  txs[i].executor = address /\ txs[i].fee = f})
         IN  f * n + FeeTotal(values \ {f}, txs, address)

LedgerOr(dict, address) ==
    IF Has(dict, address) THEN Get(dict, address) ELSE SafeSignerStats(address)

\* what the execution step may touch in each ledger
ExecutionView(dict) ==
    [i \in DOMAIN dict |->
        <<dict[i].signer_address, dict[i].num_executions, dict[i].gas_spent>>]

Addresses(dict) == {dict[i].signer_address : i \in DOMAIN dict}

----------------------------------------------------------------------------
(* Properties *)

\* C1: at every point of the ingestion, confirmation by confirmation, every
\* signer ledger has num_signings >= num_txs_created and holds exactly
\* num_signings - num_txs_created signing times.
C1_LedgerInvariant ==
    \A i \in DOMAIN signer_stats_dict :
        LET s == signer_stats_dict[i]
        IN  /\ s.num_signings >= s.num_txs_created
            /\ Len(s.signing_times) = s.num_signings - s.num_txs_created

\* C1 case: the same address confirmed one transaction twice, and both
\* confirmations are ingested.
C1_Witness ==
    /\ pc = "confirm"
    /\ conf_i = 2
    /\ LET confirmations == executed_transactions[tx_i + 1].confirmations
       IN  /\ confirmations[1].owner = confirmations[2].owner
           /\ Get(signer_stats_dict, confirmations[1].owner).num_txs_created >= 1
           /\ Get(signer_stats_dict, confirmations[1].owner).signing_times # <<>>

\* C2: once the ingestion loop is over, the eligible transactions split exactly
\* into those counted as non-owner executions and those counted in some
\* ledger's num_executions, and there is one execution time per eligible
\* transaction.
C2_ExecutionsPartition ==
    IngestionDone =>
        LET NonOwner(tx) == tx.executor \notin owners
            ByOwner(tx) == tx.executor \in owners
        IN  /\ Len(EligibleTxs) =
                   num_externally_executed_transactions + SumExecutions(signer_stats_dict)
            /\ num_externally_executed_transactions =
                   Cardinality(Positions(EligibleTxs, NonOwner))
            /\ SumExecutions(signer_stats_dict) =
                   Cardinality(Positions(EligibleTxs, ByOwner))
            /\ Len(tx_execution_times) = Len(EligibleTxs)
            /\ num_executed_transactions = Len(EligibleTxs)

\* C2 case: both sides of the split are populated.
C2_Witness ==
    /\ IngestionDone
    /\ num_externally_executed_transactions >= 1
    /\ SumExecutions(signer_stats_dict) >= 1

\* C3: the filter keeps exactly the transactions that are executed, successful
\* and at or after from_block_number; while it runs nothing else is touched,
\* and after the ingestion only the kept transactions have left a trace
\* (ledgers, signings, execution times, counts).
C3_EligibilityFilter ==
    /\ pc = "filter" =>
          /\ executed_transactions =
                 SelectSeq(SubSeq(transactions, 1, t_idx), Eligible)
          /\ signer_stats_dict = <<>>
          /\ tx_execution_times = <<>>
          /\ num_externally_executed_transactions = 0
    /\ pc \in {"ingest", "confirm"} \/ IngestionDone =>
          /\ executed_transactions = EligibleTxs
          /\ num_executed_transactions = Len(EligibleTxs)
    /\ IngestionDone =>
          /\ Len(tx_execution_times) = Len(EligibleTxs)
          /\ SumSignings(signer_stats_dict) = SumConfirmations(EligibleTxs)
          /\ Addresses(signer_stats_dict) =
                 UNION {({EligibleTxs[i].executor} \cap owners)
                            \cup {EligibleTxs[i].confirmations[j].owner :
                                      j \in DOMAIN EligibleTxs[i].confirmations} :
                        i \in DOMAIN EligibleTxs}

\* C3 case: from_block_number is 2, one transaction sits exactly on block 2 and
\* is kept, another fails a condition and is dropped.
C3_Witness ==
    /\ IngestionDone
    /\ from_block_number = 2
    /\ Len(transactions) = 2
    /\ Len(executed_transactions) = 1
    /\ executed_transactions[1].blockNumber = from_block_number

\* C4: SummaryStats is never constructed over an empty sample while a report
\* is rendered.
C4_NoEmptySample ==
    /\ ~(pc = "SummaryStats" /\ measurements = <<>>)
    /\ error # "ValueError"

\* C5: the signing time appended for a confirmation at position >= 1 is exactly
\* (signing timestamp - creation timestamp) / 60, negative or a day and more
\* included.
C5_FullDifference ==
    pc = "confirm" /\ conf_i >= 2 =>
        LET tx == executed_transactions[tx_i + 1]
            confirmation == tx.confirmations[conf_i]
            times == Get(signer_stats_dict, confirmation.owner).signing_times
        IN  times[Len(times)] =
                Rat(from_iso8601(confirmation.submissionDate)
                        - from_iso8601(tx.submissionDate), MinuteSeconds)

\* C6: the execution step of one eligible transaction either adds 1 to the
\* non-owner count and leaves every ledger's executions and gas alone (creating
\* no ledger), or, for an owner, adds 1 execution and the fee to that owner's
\* ledger alone and leaves the non-owner count alone.
C6_ExecutionStep ==
    [][pc = "ingest" /\ pc' = "confirm" =>
        LET tx == executed_transactions[tx_i + 1]
            executor == tx.executor
            old == LedgerOr(signer_stats_dict, executor)
        IN  IF executor \notin owners
            THEN /\ num_externally_executed_transactions' =
                        num_externally_executed_transactions + 1
                 /\ ExecutionView(signer_stats_dict') = ExecutionView(signer_stats_dict)
            ELSE /\ num_externally_executed_transactions' =
                        num_externally_executed_transactions
                 /\ Has(signer_stats_dict', executor)
                 /\ Get(signer_stats_dict', executor).num_executions =
                        old.num_executions + 1
                 /\ WeiOf(Get(signer_stats_dict', executor).gas_spent) =
                        WeiOf(old.gas_spent) + tx.fee
                 /\ \A a \in Addresses(signer_stats_dict') \ {executor} :
                        /\ Has(signer_stats_dict, a)
                        /\ Get(signer_stats_dict', a) = Get(signer_stats_dict, a)
                 /\ Addresses(signer_stats_dict') =
                        Addresses(signer_stats_dict) \cup {executor}
    ]_vars

\* C6 case: a second transaction has just been through the execution step, one
\* of the two executed by a non-owner, the other by an owner, with another
\* ledger present.
C6_Witness ==
    /\ pc = "confirm"
    /\ conf_i = 0
    /\ tx_i = 1
    /\ num_externally_executed_transactions = 1
    /\ SumExecutions(signer_stats_dict) = 1
    /\ Len(signer_stats_dict) = 2

\* C7: no percentage is ever divided by 0: whenever control is in the signer
\* block the eligible count is at least 1, and a run with no eligible
\* transaction never gets there.
C7_NoZeroDenominator ==
    /\ error # "ZeroDivisionError"
    /\ InSignerBlock =>
          /\ num_executed_transactions >= 1
          /\ Len(EligibleTxs) >= 1

\* C7 case: a signer's percentages have been computed.
C7_Witness ==
    /\ pc = "signer_stats"
    /\ signer_i = 0
    /\ num_executed_transactions = 1
    /\ Len(transactions) = 2

\* C8: a one-element sample gives stdev 0 and min = max = mean = median = the
\* element; the library stdev is used exactly for samples of 2 or more; min <=
\* median <= max and min <= mean <= max for every non-empty sample.
C8_SummaryStats ==
    pc = "constructed" =>
        /\ Len(measurements) = 1 =>
              /\ stats.stdev = ZeroStdev
              /\ stats.min = measurements[1]
              /\ stats.max = measurements[1]
              /\ stats.median = measurements[1]
              /\ RatEq(stats.mean, measurements[1])
        /\ Len(measurements) >= 2 <=> stats.stdev = stdev(measurements)
        /\ stats.stdev # ZeroStdev <=> Len(measurements) >= 2
        /\ \A x \in Range(measurements) : RatLE(stats.min, x) /\ RatLE(x, stats.max)
        /\ RatLE(stats.min, stats.median) /\ RatLE(stats.median, stats.max)
        /\ RatLE(stats.min, stats.mean) /\ RatLE(stats.mean, stats.max)

\* C8 case: SummaryStats has been constructed over a one-element sample.
C8_Witness ==
    /\ pc = "constructed"
    /\ Len(measurements) = 1
    /\ measurements[1].num > 0

\* C9: after the ingestion every ledger's gas_spent is exactly the sum of the
\* fees of the eligible transactions its address executed as an owner, a sum
\* that does not depend on the order of the transactions.
C9_GasIsFeeSum ==
    IngestionDone =>
        \A i \in DOMAIN signer_stats_dict :
            LET s == signer_stats_dict[i]
            IN  /\ s.gas_spent.exp >= -EtherExp
                /\ WeiOf(s.gas_spent) =
                       IF s.signer_address \in owners
                       THEN FeeTotal(Fees, EligibleTxs, s.signer_address)
                       ELSE 0

\* C9 case: one owner executed two transactions with different non-zero fees,
\* the larger fee first.
C9_Witness ==
    /\ IngestionDone
    /\ Len(executed_transactions) = 2
    /\ executed_transactions[1].executor = executed_transactions[2].executor
    /\ executed_transactions[1].executor \in owners
    /\ executed_transactions[1].fee > executed_transactions[2].fee
    /\ executed_transactions[2].fee > 0

C10_ConfirmationStep ==
    pc = "confirm" /\ conf_i' = conf_i + 1 =>
        LET tx == executed_transactions[tx_i + 1]
            signer == tx.confirmations[conf_i + 1].owner
            old == LedgerOr(signer_stats_dict, signer)
            new == LedgerOr(signer_stats_dict', signer)
        IN  /\ Has(signer_stats_dict', signer)
            /\ new.num_signings = old.num_signings + 1
            /\ IF conf_i = 0
               THEN /\ new.num_txs_created = old.num_txs_created + 1
                    /\ new.signing_times = old.signing_times
               ELSE /\ new.num_txs_created = old.num_txs_created
                    /\ Len(new.signing_times) = Len(old.signing_times) + 1
                    /\ SubSeq(new.signing_times, 1, Len(old.signing_times)) =
                           old.signing_times
            /\ \A a \in Addresses(signer_stats_dict') \ {signer} :
                   /\ Has(signer_stats_dict, a)
                   /\ Get(signer_stats_dict', a) = Get(signer_stats_dict, a)

C10_Totals ==
    IngestionDone =>
        LET Confirmed(tx) == tx.confirmations # <<>>
        IN  /\ SumCreated(signer_stats_dict) =
                   Cardinality(Positions(EligibleTxs, Confirmed))
            /\ SumSignings(signer_stats_dict) = SumConfirmations(EligibleTxs)

\* C10: ingesting the confirmation at position 0 adds one signing and one
\* creation and no signing time to its owner's ledger, ingesting one at a
\* position >= 1 adds one signing and one signing time and no creation, and no
\* other ledger changes; so after the ingestion the creations sum to the
\* number of eligible transactions with a confirmation and the signings to the
\* number of confirmations of eligible transactions.
C10_Attribution == [][C10_ConfirmationStep]_vars /\ []C10_Totals

\* C10 case: two transactions are ingested, one of them without confirmations,
\* the other with two.
C10_Witness ==
    /\ IngestionDone
    /\ Len(executed_transactions) = 2
    /\ executed_transactions[1].confirmations = <<>>
    /\ Len(executed_transactions[2].confirmations) = 2
    /\ SumSignings(signer_stats_dict) = 2

====
